---- MODULE Spec2Model ----
(***************************************************************************)
(* leroyjenkins: the line pipeline of src/src/lib.rs (struct Leroy), its   *)
(* keyed rate limiter (src/src/keyed_limiter.rs) and the netlink batch it  *)
(* builds for every ban (src/src/nftnl.rs).                                *)
(*                                                                         *)
(* Time is counted in whole seconds.  Option<T> is a sequence: <<>> is     *)
(* None, <<v>> is Some(v).  A u32 is a pair <<hi, lo>> of 16-bit limbs so  *)
(* that the counter keeps its width.                                       *)
(***************************************************************************)
EXTENDS Integers, Sequences, FiniteSets, TLC

\* ------------------------------------------------------------------ bounds
MaxTime == 3
MaxLines == 3
MaxChecks == 6
MaxStream == 4

VARIABLES
    pc,         \* "init" | "running" | "failed" (Leroy::new returned Err) | "aborted" (panic in handle_line)
    leroy,      \* struct Leroy
    now,        \* the monotonic clock, seconds since the process started
    kernel,     \* the kernel's timed sets: ip -> [timeout, at] of the installed element
    nlines,     \* number of lines handed to handle_line so far
    hist,       \* per ip: [k, at] of its last committed ban (k = bans in the current recidivism window)
    b2b,        \* per line: calls so far, all at the instant of the first one; -1 once time has passed
    last,       \* what the most recent Leroy::new / handle_line did
    checks,     \* limiter law only: the <<time, fresh, admitted>> records of the checks of one key
    stdin,      \* main only: the input stream [bytes, end] and the position pos read so far
    handed,     \* main only: the lines handed to handle_line, in order
    nogc        \* keyed limiter only: the same limiter fed the same checks, never collected

vars == <<pc, leroy, now, kernel, nlines, hist, b2b, last, checks, stdin, handed, nogc>>

\* ------------------------------------------------------------ Option, u32
None == <<>>
Some(v) == <<v>>
is_some(o) == Len(o) = 1
unwrap_or(o, d) == IF Len(o) = 1 THEN o[1] ELSE d

Max(a, b) == IF a >= b THEN a ELSE b
saturating_sub(a, b) == IF a >= b THEN a - b ELSE 0

U16 == 2^16
U32Zero == <<0, 0>>
wrapping_add_1(s) ==
    IF s[2] + 1 < U16 THEN <<s[1], s[2] + 1>>
    ELSE IF s[1] + 1 < U16 THEN <<s[1] + 1, 0>>
    ELSE <<0, 0>>
U32Less(a, b) == a[1] < b[1] \/ (a[1] = b[1] /\ a[2] < b[2])

\* ------------------------------------------------------------- addresses
V4(a, b, c, d) == [family |-> "V4", octets |-> <<a, b, c, d>>]
V6(a, b, c, d, e, f, g, h) ==
    [family |-> "V6",
     octets |-> <<a \div 256, a % 256, b \div 256, b % 256, c \div 256, c % 256,
                  d \div 256, d % 256, e \div 256, e % 256, f \div 256, f % 256,
                  g \div 256, g % 256, h \div 256, h % 256>>]

StartupV4 == V4(192, 0, 2, 1)
StartupV6 == V6(8193, 3512, 0, 0, 0, 0, 0, 1)

\* The input lines of the model: a V4 address, two spellings of one V6 address,
\* a line that is no address and the empty line.
Lines == {"10.0.0.1", "2001:db8::1", "2001:DB8::1", "bogus", ""}

\* IpAddr::parse_ascii on the lines above.
parse_ascii(line) ==
    CASE line = "10.0.0.1" -> Some(V4(10, 0, 0, 1))
      [] line = "2001:db8::1" -> Some(V6(8193, 3512, 0, 0, 0, 0, 0, 1))
      [] line = "2001:DB8::1" -> Some(V6(8193, 3512, 0, 0, 0, 0, 0, 1))
      [] OTHER -> None

as_octets(ip) == ip.octets

\* ----------------------------------------------------------------- Args
Table == "leroy"
Limits == {<<0, 0>>, <<0, 2>>, <<1, 1>>, <<2, 2>>, <<2, 0>>}     \* <<bl_threshold, bl_period>>
Durations == {<<3, 4>>, <<1, 2>>}            \* <<ipset_base_time, ipset_ban_ttl>>
\* struct Args with the options the model varies.
ArgsOf(l, d, dry, capacity) ==
    [bl_threshold |-> l[1], bl_period |-> l[2],
     ipset_base_time |-> d[1], ipset_ban_ttl |-> d[2],
     table |-> Table, ipset_ipv4_name |-> "leroy4", ipset_ipv6_name |-> "leroy6",
     reporting_ip_time_period |-> 1, cache_initial_capacity |-> capacity,
     dry_run |-> dry]
Args == {ArgsOf(l, d, dry, 1) : l \in Limits, d \in Durations, dry \in BOOLEAN}

\* The options of the runs that exercise the limiter alone.
LimiterLimits == {<<1, 1>>, <<2, 1>>, <<3, 1>>, <<1, 2>>, <<2, 2>>, <<3, 2>>}
Capacities == {1, 2}
LimiterArgs == {ArgsOf(l, <<3, 4>>, TRUE, c) : l \in LimiterLimits, c \in Capacities}
Key == "10.0.0.1"

\* Args::time_to_ban: base_time.checked_mul(ban_count).unwrap_or(Duration::MAX).
\* Every product of the model is far below Duration::MAX (2^64 s), so
\* checked_mul is Some.
time_to_ban_flat(args, ban_count) == args.ipset_base_time
time_to_ban(args, ban_count) == args.ipset_base_time * ban_count

\* ------------------------------------------------------------ TTL caches
\* A mini_moka cache with time_to_live(ttl): key -> [value, at]; an entry is
\* expired once at + ttl <= now.  cache_max_size is never reached here.
EmptyCache == [ip \in {} |-> 0]
is_expired_early(entry, ttl, t) == entry.at + ttl <= t + 1
is_expired(entry, ttl, t) == entry.at + ttl <= t
contains_key(cache, ttl, key, t) ==
    key \in DOMAIN cache /\ ~is_expired(cache[key], ttl, t)
get(cache, ttl, key, t) ==
    IF contains_key(cache, ttl, key, t) THEN Some(cache[key].value) ELSE None
insert(cache, key, value, t) ==
    [k \in DOMAIN cache \cup {key} |->
        IF k = key THEN [value |-> value, at |-> t] ELSE cache[k]]

ipset_cache_ttl_full(args) == args.ipset_base_time
ipset_cache_ttl(args) == saturating_sub(args.ipset_base_time, 1)
recidivism_ttl_base(args) == args.ipset_base_time
recidivism_ttl(args) == args.ipset_ban_ttl

\* ---------------------------------------------------------- keyed limiter
\* Quota::with_period(bl_period) is a quota of one cell per bl_period;
\* allow_burst(bl_threshold) changes only its burst size.
Quota(args) == [max_burst |-> args.bl_threshold, replenish_1_per |-> args.bl_period]

\* The GCRA parameters governor derives from a quota: the emission interval t
\* and the tolerance tau.
gcra_t(quota) == quota.replenish_1_per
gcra_tau_short(quota) == quota.replenish_1_per * (quota.max_burst - 1)
gcra_tau(quota) == quota.replenish_1_per * quota.max_burst

gcra_decide_le(quota, tat_opt, t0) ==
    LET tat == unwrap_or(tat_opt, t0 + gcra_t(quota))
    IN  IF t0 <= saturating_sub(tat, gcra_tau(quota))
        THEN [ok |-> FALSE, next |-> 0]
        ELSE [ok |-> TRUE, next |-> Max(tat, t0) + gcra_t(quota)]

\* The decision closure RateLimiter::check_key hands to the state store: given
\* the stored arrival time (None for a new bucket) and the current time t0,
\* Err (ok = FALSE) or Ok with the next arrival time.
gcra_decide(quota, tat_opt, t0) ==
    LET tat == unwrap_or(tat_opt, t0 + gcra_t(quota))
        earliest_time == saturating_sub(tat, gcra_tau(quota))
    IN  IF t0 < earliest_time
        THEN [ok |-> FALSE, next |-> 0]
        ELSE [ok |-> TRUE, next |-> Max(tat, t0) + gcra_t(quota)]

measure_and_replace_one_always_sets(value, quota, t0) ==
    LET r == gcra_decide(quota, IF value = 0 THEN None ELSE Some(value), t0)
    IN  [ok |-> r.ok, value |-> r.next]

\* UnsyncInMemoryState::measure_and_replace_one on a bucket value: a stored 0
\* reads as None; the value is replaced only when the closure returns Ok.
measure_and_replace_one(value, quota, t0) ==
    LET prev == value
        r == gcra_decide(quota, IF prev = 0 THEN None ELSE Some(prev), t0)
    IN  [ok |-> r.ok, value |-> IF r.ok THEN r.next ELSE prev]

\* UnsyncHashMapStateStore::measure_and_replace: an absent key gets a default
\* (zero) bucket first.
measure_and_replace(buckets, key, quota, t0) ==
    LET prev == IF key \in DOMAIN buckets THEN buckets[key] ELSE 0
        r == measure_and_replace_one(prev, quota, t0)
    IN  [ok |-> r.ok,
         buckets |-> [k \in DOMAIN buckets \cup {key} |->
                        IF k = key THEN r.value ELSE buckets[k]]]

is_older_than_strict(value, nanos) == value < nanos

\* UnsyncInMemoryState::is_older_than
is_older_than(value, nanos) == value <= nanos

\* UnsyncHashMapStateStore::retain_recent
retain_recent(buckets, drop_below) ==
    [k \in {j \in DOMAIN buckets : ~is_older_than(buckets[j], drop_below)} |-> buckets[k]]

EmptyBuckets == [k \in {} |-> 0]

\* KeyedLimiter::new
KeyedLimiter_new(quota, initial_capacity) ==
    [quota |-> quota, buckets |-> EmptyBuckets,
     initial_capacity |-> initial_capacity, next_gc_len |-> initial_capacity]

maybe_gc_no_headroom(lim, t0) ==
    IF Cardinality(DOMAIN lim.buckets) >= lim.next_gc_len
    THEN LET kept == retain_recent(lim.buckets, t0)
         IN  [lim EXCEPT !.buckets = kept,
                         !.next_gc_len = Max(lim.initial_capacity, Cardinality(DOMAIN kept))]
    ELSE lim

maybe_gc_exceeds(lim, t0) ==
    IF Cardinality(DOMAIN lim.buckets) > lim.next_gc_len
    THEN LET kept == retain_recent(lim.buckets, t0)
         IN  [lim EXCEPT !.buckets = kept,
                         !.next_gc_len = Max(lim.initial_capacity, Cardinality(DOMAIN kept) * 2)]
    ELSE lim

\* KeyedLimiter::maybe_gc; RateLimiter::retain_recent drops the buckets that
\* are not after the current time.
maybe_gc(lim, t0) ==
    IF Cardinality(DOMAIN lim.buckets) >= lim.next_gc_len
    THEN LET kept == retain_recent(lim.buckets, t0)
             new_len == Cardinality(DOMAIN kept)
         IN  [lim EXCEPT !.buckets = kept,
                         !.next_gc_len = Max(lim.initial_capacity, new_len * 2)]
    ELSE lim

\* KeyedLimiter::check_key: [ok, lim] where ok = FALSE is Err(NotUntil).
check_key(lim, key, t0) ==
    LET g == maybe_gc(lim, t0)
        r == measure_and_replace(g.buckets, key, g.quota, t0)
    IN  [ok |-> r.ok, lim |-> [g EXCEPT !.buckets = r.buckets]]

\* --------------------------------------------------------- netlink batch
\* struct NlmsgBatch: the messages in the buffer and the Seq counter.  A
\* message is [type, flags, seq, family, set]; set is None in the two batch
\* control messages.
NlmsgBatch_new(seq) == [msgs |-> <<>>, seq |-> seq]

inc_saturating(seq) == IF seq = <<U16 - 1, U16 - 1>> THEN seq ELSE wrapping_add_1(seq)

\* Seq::inc
inc(seq) == wrapping_add_1(seq)

\* NlmsgBatch::reset: the buffer is emptied, the counter is kept.
reset(b) == [b EXCEPT !.msgs = <<>>]

\* NlmsgBatch::begin (nftnl_batch_begin builds the NFNL_MSG_BATCH_BEGIN header).
begin(b) ==
    LET seq == inc(b.seq)
    IN  [msgs |-> Append(b.msgs, [type |-> "BATCH_BEGIN", flags |-> {"REQUEST"},
                                  seq |-> seq, family |-> "UNSPEC", set |-> None]),
         seq |-> seq]

\* NlmsgBatch::set_elems
set_elems(b, msg_type, family, flags, set) ==
    LET seq == inc(b.seq)
    IN  [msgs |-> Append(b.msgs, [type |-> msg_type, flags |-> flags,
                                  seq |-> seq, family |-> family, set |-> Some(set)]),
         seq |-> seq]

end_reuses_seq(b) ==
    [msgs |-> Append(b.msgs, [type |-> "BATCH_END", flags |-> {"REQUEST"},
                              seq |-> inc(b.seq), family |-> "UNSPEC", set |-> None]),
     seq |-> b.seq]

\* NlmsgBatch::end
end(b) ==
    LET seq == inc(b.seq)
    IN  [msgs |-> Append(b.msgs, [type |-> "BATCH_END", flags |-> {"REQUEST"},
                                  seq |-> seq, family |-> "UNSPEC", set |-> None]),
         seq |-> seq]

\* A u64 (and the u128 of as_millis, as far as it is needed) is a sequence of
\* 16-bit limbs, the most significant first.
U64Max == <<65535, 65535, 65535, 65535>>
FromInt(n) == <<0, 0, n \div U16, n % U16>>
ToInt(l) == l[3] * U16 + l[4]

\* l * k + carry in limbs, one limb longer than l.
RECURSIVE mul_limbs(_, _, _)
mul_limbs(l, k, carry) ==
    IF l = <<>> THEN <<carry>>
    ELSE Append(mul_limbs(SubSeq(l, 1, Len(l) - 1), k, (l[Len(l)] * k + carry) \div U16),
                (l[Len(l)] * k + carry) % U16)

\* Duration::as_millis of a duration of whole seconds: five limbs of the u128.
as_millis(secs) == mul_limbs(secs, 1000, 0)

\* u64::try_from of that u128.
try_into_u64(millis) == IF millis[1] = 0 THEN Some(SubSeq(millis, 2, 5)) ELSE None

set_timeout_wrapping(secs) == SubSeq(as_millis(secs), 2, 5)

\* NftnlSetElem::set_timeout on a duration given in limbs:
\* duration.as_millis().try_into().unwrap_or(u64::MAX).
set_timeout_u64(secs) == unwrap_or(try_into_u64(as_millis(secs)), U64Max)

\* NftnlSetElem::set_timeout on the durations of the runs, which are small
\* numbers of seconds, as a number of milliseconds.
set_timeout(duration) == ToInt(set_timeout_u64(FromInt(duration)))

NftnlSet_swapped(args, ip, timeout) ==
    [table |-> args.table,
     name |-> IF ip.family = "V4" THEN args.ipset_ipv6_name ELSE args.ipset_ipv4_name,
     elems |-> <<[key |-> as_octets(ip), timeout |-> set_timeout(timeout)]>>]

\* The set and its one element that Leroy::ban builds for ip.
NftnlSet(args, ip, timeout) ==
    [table |-> args.table,
     name |-> IF ip.family = "V4" THEN args.ipset_ipv4_name ELSE args.ipset_ipv6_name,
     elems |-> <<[key |-> as_octets(ip), timeout |-> set_timeout(timeout)]>>]

build_batch_no_reset(nlmsg_batch, set) ==
    LET b4 == set_elems(set_elems(set_elems(begin(nlmsg_batch),
                    "NFT_MSG_NEWSETELEM", "NFPROTO_INET", {"CREATE", "REQUEST"}, set),
                    "NFT_MSG_DELSETELEM", "NFPROTO_INET", {"CREATE", "REQUEST"}, set),
                    "NFT_MSG_NEWSETELEM", "NFPROTO_INET", {"CREATE", "REQUEST", "ACK"}, set)
    IN  [batch |-> end(b4), seq |-> b4.seq]

\* The batch of one ban, lib.rs lines 216-240: [batch, seq] where seq is the
\* counter read before end(), the number the acknowledgement must carry.
build_batch(nlmsg_batch, set) ==
    LET b0 == reset(nlmsg_batch)
        b1 == begin(b0)
        b2 == set_elems(b1, "NFT_MSG_NEWSETELEM", "NFPROTO_INET", {"CREATE", "REQUEST"}, set)
        b3 == set_elems(b2, "NFT_MSG_DELSETELEM", "NFPROTO_INET", {"CREATE", "REQUEST"}, set)
        b4 == set_elems(b3, "NFT_MSG_NEWSETELEM", "NFPROTO_INET",
                        {"CREATE", "REQUEST", "ACK"}, set)
        seq == b4.seq
    IN  [batch |-> end(b4), seq |-> seq]

\* ------------------------------------------------------ the kernel's side
\* What the socket does with one batch.  tx: the send is "full" or "short";
\* rx_ok: recv returned a buffer; msgs: the messages in it; applied: the
\* kernel committed the batch.  A message is [parsed, type, seq, portid, error].
Portid == <<0, 7>>
OtherPortid == <<0, 8>>
Nlmsg(type, seq, portid, error) ==
    [parsed |-> TRUE, type |-> type, seq |-> seq, portid |-> portid, error |-> error]

Behaviours ==
    {"commit", "reject", "stale_ack", "foreign_ack", "silent", "noop", "send_short", "recv_err"}

\* With "stray" the one recv of the ban returns a message that was queued on
\* the socket before the kernel's answer to the batch, and the kernel does not
\* apply the batch.
StrayBehaviours == Behaviours \cup {"stray"}

\* The exchange a behaviour yields for a batch.
Exchange(x, batch) ==
    LET s(i) == batch.msgs[i].seq
        ok(msgs, applied) == [tx |-> "full", rx_ok |-> TRUE, msgs |-> msgs, applied |-> applied]
    IN  CASE x = "commit" -> ok(<<Nlmsg("NLMSG_ERROR", s(4), Portid, 0)>>, TRUE)
          [] x = "reject" -> ok(<<Nlmsg("NLMSG_ERROR", s(4), Portid, -1)>>, FALSE)
          [] x = "stale_ack" -> ok(<<Nlmsg("NLMSG_ERROR", s(5), Portid, 0)>>, TRUE)
          [] x = "foreign_ack" -> ok(<<Nlmsg("NLMSG_ERROR", s(4), OtherPortid, 0)>>, TRUE)
          [] x = "silent" -> ok(<<>>, TRUE)
          [] x = "noop" -> ok(<<Nlmsg("NLMSG_NOOP", s(4), Portid, 0)>>, TRUE)
          [] x = "stray" -> ok(<<Nlmsg("NLMSG_NOOP", U32Zero, U32Zero, 0)>>, FALSE)
          [] x = "send_short" -> [tx |-> "short", rx_ok |-> FALSE, msgs |-> <<>>, applied |-> FALSE]
          [] OTHER -> [tx |-> "full", rx_ok |-> FALSE, msgs |-> <<>>, applied |-> FALSE]

cb_run_lenient(response, seq, portid) ==
    /\ (response.portid = U32Zero \/ portid = U32Zero \/ response.portid = portid)
    /\ (response.seq = U32Zero \/ seq = U32Zero \/ response.seq = seq)

\* mnl::cb_run(response, seq, portid): Ok unless the port id or the sequence
\* number differs (zero matches anything) or the message is an NLMSG_ERROR
\* with a non-zero error code.
cb_run(response, seq, portid) ==
    /\ (response.portid = U32Zero \/ portid = U32Zero \/ response.portid = portid)
    /\ (response.seq = U32Zero \/ seq = U32Zero \/ response.seq = seq)
    /\ (response.type = "NLMSG_ERROR" => response.error = 0)

\* The responses of an exchange hold an acknowledgement: an NLMSG_ERROR
\* message with error code 0.
Acked(e) ==
    \E i \in 1..Len(e.msgs) : e.msgs[i].type = "NLMSG_ERROR" /\ e.msgs[i].error = 0

\* lib.rs lines 242-253 with a socket: TRUE when the send was whole, recv
\* returned and every response parsed and passed cb_run.
exchange_ok(e, seq, portid) ==
    /\ e.tx = "full"
    /\ e.rx_ok
    /\ \A i \in 1..Len(e.msgs) : e.msgs[i].parsed /\ cb_run(e.msgs[i], seq, portid)

\* ------------------------------------------------------------ struct Leroy
\* What a call of Leroy::ban did: self is the struct afterwards, ok = FALSE is
\* Err; how, built, sent, applied, recidivism and timeout describe the call.
NoBan ==
    [ok |-> TRUE, how |-> "", built |-> FALSE, sent |-> FALSE, applied |-> FALSE,
     recidivism |-> 0, timeout |-> 0, ack |-> U32Zero]

ban_submit_commit_first(self, ip, t, x, recidivism, timeout, b) ==
    LET built == [self EXCEPT
                    !.nlmsg_batch = b.batch,
                    !.ipset_cache = insert(self.ipset_cache, ip, TRUE, t),
                    !.recidivism_counts = insert(self.recidivism_counts, ip, recidivism, t)]
        live == is_some(self.socket)
        e == Exchange(x, b.batch)
    IN  IF live => exchange_ok(e, b.seq, self.socket[1])
        THEN [self |-> built,
              ok |-> TRUE, how |-> "banned", built |-> TRUE, sent |-> live,
              applied |-> live /\ e.applied, recidivism |-> recidivism, timeout |-> timeout,
              ack |-> b.seq]
        ELSE [self |-> built, ok |-> FALSE, how |-> "failed", built |-> TRUE, sent |-> live,
              applied |-> live /\ e.tx = "full" /\ e.applied,
              recidivism |-> recidivism, timeout |-> timeout, ack |-> b.seq]

ban_submit_commit_in_block(self, ip, t, x, recidivism, timeout, b) ==
    LET built == [self EXCEPT !.nlmsg_batch = b.batch]
        live == is_some(self.socket)
        e == Exchange(x, b.batch)
    IN  IF live /\ exchange_ok(e, b.seq, self.socket[1])
        THEN [self |-> [built EXCEPT
                          !.ipset_cache = insert(self.ipset_cache, ip, TRUE, t),
                          !.recidivism_counts = insert(self.recidivism_counts, ip, recidivism, t)],
              ok |-> TRUE, how |-> "banned", built |-> TRUE, sent |-> live,
              applied |-> e.applied, recidivism |-> recidivism, timeout |-> timeout,
              ack |-> b.seq]
        ELSE [self |-> built, ok |-> ~live, how |-> IF live THEN "failed" ELSE "banned",
              built |-> TRUE, sent |-> live, applied |-> live /\ e.tx = "full" /\ e.applied,
              recidivism |-> recidivism, timeout |-> timeout, ack |-> b.seq]

\* Leroy::ban from the socket exchange on (lib.rs lines 242-258): b is the
\* batch built for the ban, x the kernel's behaviour.
ban_submit(self, ip, t, x, recidivism, timeout, b) ==
    LET built == [self EXCEPT !.nlmsg_batch = b.batch]
        live == is_some(self.socket)
        e == Exchange(x, b.batch)
    IN  IF live => exchange_ok(e, b.seq, self.socket[1])
        THEN [self |-> [built EXCEPT
                          !.ipset_cache = insert(self.ipset_cache, ip, TRUE, t),
                          !.recidivism_counts = insert(self.recidivism_counts, ip, recidivism, t)],
              ok |-> TRUE, how |-> "banned", built |-> TRUE, sent |-> live,
              applied |-> live /\ e.applied, recidivism |-> recidivism, timeout |-> timeout,
              ack |-> b.seq]
        ELSE [self |-> built, ok |-> FALSE, how |-> "failed", built |-> TRUE, sent |-> live,
              applied |-> live /\ e.tx = "full" /\ e.applied,
              recidivism |-> recidivism, timeout |-> timeout, ack |-> b.seq]

\* Leroy::ban(ip) at time t, the kernel behaving as x.
ban(self, ip, t, x) ==
    IF contains_key(self.ipset_cache, ipset_cache_ttl(self.args), ip, t)
    THEN [NoBan EXCEPT !.how = "suppressed"] @@ [self |-> self]
    ELSE
    LET recidivism ==
            unwrap_or(get(self.recidivism_counts, recidivism_ttl(self.args), ip, t), 0) + 1
        timeout == time_to_ban(self.args, recidivism)
    IN  ban_submit(self, ip, t, x, recidivism, timeout,
                   build_batch(self.nlmsg_batch, NftnlSet(self.args, ip, timeout)))

parse_error_panics(self) ==
    [NoBan EXCEPT !.how = "parse_error", !.ok = FALSE] @@ [self |-> self]

\* The Err arm of the match in handle_line: the error is logged, nothing else.
parse_error_arm(self) == [NoBan EXCEPT !.how = "parse_error"] @@ [self |-> self]

handle_line_report_at_period(t, limiter, ip, r) ==
    LET after == r.self
        report == /\ after.line_count % 10 = 0
                  /\ t - after.line_count_start >= after.args.reporting_ip_time_period
    IN  [self |-> IF r.ok /\ report
                  THEN [after EXCEPT !.line_count = 0, !.line_count_start = t]
                  ELSE after,
         panicked |-> ~r.ok, limiter |-> limiter, ip |-> ip, ban |-> r,
         reported |-> r.ok /\ report]

\* The end of handle_line (lib.rs lines 182-192) after the ban result r: the
\* periodic report resets the line counter.  panicked: the expect("ban") failed
\* and the report was never reached.
handle_line_report(t, limiter, ip, r) ==
    LET after == r.self
        report == /\ after.line_count % 10 = 0
                  /\ t - after.line_count_start > after.args.reporting_ip_time_period
    IN  [self |-> IF r.ok /\ report
                  THEN [after EXCEPT !.line_count = 0, !.line_count_start = t]
                  ELSE after,
         panicked |-> ~r.ok, limiter |-> limiter, ip |-> ip, ban |-> r,
         reported |-> r.ok /\ report]

\* The match on the parsed line (lib.rs lines 172-179).
handle_line_match(self, t, x, limiter, ip) ==
    handle_line_report(t, limiter, ip,
        IF is_some(ip) THEN ban(self, ip[1], t, x) ELSE parse_error_arm(self))

handle_line_checked_parses(self, line, t, x, c) ==
    handle_line_match([self EXCEPT !.ip_rate_limiters = Some(c.lim)], t, x,
                      IF c.ok THEN "admitted" ELSE "denied", parse_ascii(line))

\* handle_line once the limiter has answered c for the line.
handle_line_checked(self, line, t, x, c) ==
    LET checked == [self EXCEPT !.ip_rate_limiters = Some(c.lim)]
    IN  IF c.ok
        THEN handle_line_report(t, "admitted", None,
                                [NoBan EXCEPT !.how = "admitted"] @@ [self |-> checked])
        ELSE handle_line_match(checked, t, x, "denied", parse_ascii(line))

handle_line_is_some_and(self, line, t, x) ==
    LET counted == [self EXCEPT !.line_count = self.line_count + 1]
    IN  IF is_some(self.ip_rate_limiters)
        THEN handle_line_checked(counted, line, t, x,
                                 check_key(self.ip_rate_limiters[1], line, t))
        ELSE handle_line_report(t, "absent", None,
                                [NoBan EXCEPT !.how = "admitted"] @@ [self |-> counted])

handle_line_keyed_by_ip(self, line, t, x) ==
    LET counted == [self EXCEPT !.line_count = self.line_count + 1]
        key == IF parse_ascii(line) = Some(StartupV6) THEN "2001:db8::1" ELSE line
    IN  IF is_some(self.ip_rate_limiters)
        THEN handle_line_checked(counted, line, t, x,
                                 check_key(self.ip_rate_limiters[1], key, t))
        ELSE handle_line_match(counted, t, x, "absent", parse_ascii(line))

\* Leroy::handle_line(line) at time t.
handle_line(self, line, t, x) ==
    LET counted == [self EXCEPT !.line_count = self.line_count + 1]
    IN  IF is_some(self.ip_rate_limiters)
        THEN handle_line_checked(counted, line, t, x,
                                 check_key(self.ip_rate_limiters[1], line, t))
        ELSE handle_line_match(counted, t, x, "absent", parse_ascii(line))

\* The fields of Leroy before Leroy::new has filled them.
Blank(args) ==
    [socket |-> None, nlmsg_batch |-> NlmsgBatch_new(U32Zero), ip_rate_limiters |-> None,
     ipset_cache |-> EmptyCache, recidivism_counts |-> EmptyCache,
     line_count |-> 0, line_count_start |-> 0, args |-> args]

\* The end of Leroy::new (lib.rs lines 159-161): r2 is what the second startup
\* ban returned, r1 what the first one did.
new_ban_v6(r1, r2) ==
    [self |-> r2.self, err |-> IF r2.ok THEN "" ELSE "ban", bans |-> <<r1, r2>>]

new_ban_v4_only(r1, t, x2) ==
    [self |-> r1.self, err |-> IF r1.ok THEN "" ELSE "ban", bans |-> <<r1>>]

\* Leroy::new from the first startup ban on (lib.rs lines 158-161): r1 is what
\* that ban returned.
new_ban_v4(r1, t, x2) ==
    IF ~r1.ok THEN [self |-> r1.self, err |-> "ban", bans |-> <<r1>>]
    ELSE new_ban_v6(r1, ban(r1.self, StartupV6, t, x2))

Leroy_new_unchecked(args, t, sock_ok, x1, x2) ==
    IF ~args.dry_run /\ ~sock_ok THEN [self |-> Blank(args), err |-> "socket", bans |-> <<>>]
    ELSE new_ban_v4(
            ban([Blank(args) EXCEPT
                    !.socket = IF args.dry_run THEN None ELSE Some(Portid),
                    !.ip_rate_limiters =
                        IF args.bl_threshold > 0
                        THEN Some(KeyedLimiter_new(Quota(args), args.cache_initial_capacity))
                        ELSE None,
                    !.line_count_start = t],
                StartupV4, t, x1), t, x2)

\* Leroy::new(args) at time t: sock_ok is whether mnl::Socket::new succeeds, x1
\* and x2 how the kernel treats the two startup bans.
Leroy_new(args, t, sock_ok, x1, x2) ==
    LET constructed ==
            [Blank(args) EXCEPT
                !.socket = IF args.dry_run THEN None ELSE Some(Portid),
                !.ip_rate_limiters =
                    IF args.bl_threshold > 0
                    THEN Some(KeyedLimiter_new(Quota(args), args.cache_initial_capacity))
                    ELSE None,
                !.line_count_start = t]
    IN  IF ~args.dry_run /\ ~sock_ok THEN [self |-> Blank(args), err |-> "socket", bans |-> <<>>]
        ELSE IF args.bl_threshold > 0 /\ args.bl_period = 0
        THEN [self |-> Blank(args), err |-> "quota", bans |-> <<>>]
        ELSE new_ban_v4(ban(constructed, StartupV4, t, x1), t, x2)

\* ------------------------------------------------- bookkeeping of a step
\* hist after a ban result r of ip at time t: a committed ban is the next of
\* its window when the previous one is less than ipset_ban_ttl old (k), or at
\* most ipset_ban_ttl old (k_le); by is the line that caused it ("startup" for
\* the bans of Leroy::new).
HistAfter(h, ip, r, t, args, noack, by) ==
    IF r.how # "banned" THEN h
    ELSE LET seen == ip \in DOMAIN h
             e == [at |-> t, noack |-> noack, by |-> by,
                   k |-> IF seen /\ t - h[ip].at < args.ipset_ban_ttl THEN h[ip].k + 1 ELSE 1,
                   k_le |-> IF seen /\ t - h[ip].at <= args.ipset_ban_ttl
                            THEN h[ip].k_le + 1 ELSE 1]
         IN  [i \in DOMAIN h \cup {ip} |-> IF i = ip THEN e ELSE h[i]]

\* The kernel's set after the exchange of a ban: a committed batch installs the
\* element with its timeout.
KernelAfter(kern, ip, r, t) ==
    IF ~r.applied THEN kern
    ELSE [i \in DOMAIN kern \cup {ip} |->
            IF i = ip THEN [timeout |-> set_timeout(r.timeout), at |-> t] ELSE kern[i]]

NoLast ==
    [op |-> "none", at |-> 0, line |-> "", limiter |-> "", ip |-> None, how |-> "",
     built |-> FALSE, sent |-> FALSE, x |-> "", timeout |-> 0, recidivism |-> 0,
     nth |-> 0, prev |-> None, reported |-> FALSE, err |-> "",
     wrote |-> FALSE, batch_moved |-> FALSE, kernel_moved |-> FALSE,
     seq0 |-> U32Zero, ack |-> U32Zero, lim0 |-> None,
     count0 |-> 0, start0 |-> 0]

\* ------------------------------------------------------------ input stream
\* The bytes of standard input are a sequence of tokens: NL is the byte b'\n',
\* a record a maximal run of other bytes. The stream ends with EOF or with a
\* read that returns an I/O error.
NL == "\n"
Records == {"10.0.0.1", "bogus"}
ByteSeqs ==
    {s \in UNION {[1..n -> Records \cup {NL}] : n \in 0..MaxStream} :
        \A i \in 1..(Len(s) - 1) : s[i] = NL \/ s[i + 1] = NL}
Streams == {[bytes |-> s, end |-> e, pos |-> 0] : s \in ByteSeqs, e \in {"eof", "error"}}
NoInput == [bytes |-> <<>>, end |-> "eof", pos |-> 0]

\* The Vec<u8> of a run of tokens without NL.
Bytes(buf) == IF buf = <<>> THEN "" ELSE buf[1]

\* Index of the first NL of rest, 0 when it has none.
RECURSIVE memchr(_, _)
memchr(rest, i) ==
    IF i > Len(rest) THEN 0 ELSE IF rest[i] = NL THEN i ELSE memchr(rest, i + 1)

split_next_drop_partial(in) ==
    LET rest == SubSeq(in.bytes, in.pos + 1, Len(in.bytes))
        i == memchr(rest, 1)
    IN  IF i > 0 THEN [kind |-> "line", line |-> Bytes(SubSeq(rest, 1, i - 1)), pos |-> in.pos + i]
        ELSE IF in.end = "error" THEN [kind |-> "err", line |-> "", pos |-> in.pos]
        ELSE [kind |-> "eof", line |-> "", pos |-> Len(in.bytes)]

\* io::Split::next for stdin.lock().split(b'\n'): read_until the delimiter;
\* nothing read is EOF (None); a delimiter at the end of the buffer is popped.
split_next(in) ==
    LET rest == SubSeq(in.bytes, in.pos + 1, Len(in.bytes))
        i == memchr(rest, 1)
    IN  IF i > 0 THEN [kind |-> "line", line |-> Bytes(SubSeq(rest, 1, i - 1)), pos |-> in.pos + i]
        ELSE IF in.end = "error" THEN [kind |-> "err", line |-> "", pos |-> in.pos]
        ELSE IF rest = <<>> THEN [kind |-> "eof", line |-> "", pos |-> in.pos]
        ELSE [kind |-> "line", line |-> Bytes(rest), pos |-> Len(in.bytes)]

\* ---------------------------------------------------------------- actions
Init ==
    /\ pc = "init"
    /\ \E a \in Args : leroy = Blank(a)
    /\ now = 0
    /\ kernel = EmptyCache
    /\ nlines = 0
    /\ hist = EmptyCache
    /\ b2b = [l \in Lines |-> 0]
    /\ last = NoLast
    /\ checks = <<>>
    /\ stdin = NoInput
    /\ handed = <<>>
    /\ nogc = None

\* The i-th startup ban of a result n of Leroy::new, NoBan when new returned
\* before it.
StartupBan(n, i) == IF i >= 1 /\ Len(n.bans) >= i THEN n.bans[i] ELSE NoBan

\* The state after Leroy::new returned n.
Started(n, x1, x2) ==
    LET k1 == KernelAfter(kernel, StartupV4, StartupBan(n, 1), now)
        k2 == KernelAfter(k1, StartupV6, StartupBan(n, 2), now)
        h1 == HistAfter(hist, StartupV4, StartupBan(n, 1), now, leroy.args, FALSE, "startup")
        final == StartupBan(n, Len(n.bans))         \* the last ban new attempted
    IN  /\ pc' = IF n.err = "" THEN "running" ELSE "failed"
        /\ leroy' = n.self
        /\ hist' = HistAfter(h1, StartupV6, StartupBan(n, 2), now, leroy.args, FALSE, "startup")
        /\ kernel' = k2
        /\ last' = [NoLast EXCEPT
                      !.op = "new", !.at = now, !.err = n.err,
                      !.ip = IF Len(n.bans) = 0 THEN None
                             ELSE Some(IF Len(n.bans) = 1 THEN StartupV4 ELSE StartupV6),
                      !.how = final.how, !.built = final.built, !.sent = final.sent,
                      !.x = IF ~final.sent THEN "" ELSE IF Len(n.bans) = 1 THEN x1 ELSE x2,
                      !.timeout = final.timeout, !.recidivism = final.recidivism,
                      !.wrote = <<n.self.ipset_cache, n.self.recidivism_counts>>
                                # <<leroy.ipset_cache, leroy.recidivism_counts>>,
                      !.batch_moved = n.self.nlmsg_batch # leroy.nlmsg_batch,
                      !.kernel_moved = k2 # kernel,
                      !.seq0 = leroy.nlmsg_batch.seq, !.ack = final.ack]

\* main: Leroy::new(args)?
New ==
    /\ pc = "init"
    /\ \E sock_ok \in IF leroy.args.dry_run THEN {TRUE} ELSE BOOLEAN,
          x1 \in IF leroy.args.dry_run THEN {"commit"} ELSE Behaviours,
          x2 \in IF leroy.args.dry_run THEN {"commit"} ELSE Behaviours :
        Started(Leroy_new(leroy.args, now, sock_ok, x1, x2), x1, x2)
    /\ UNCHANGED <<now, nlines, b2b, checks, stdin, handed, nogc>>

\* The state after handle_line(line) returned h (or panicked).
Handled(line, x, h, nth) ==
    LET k1 == IF is_some(h.ip) THEN KernelAfter(kernel, h.ip[1], h.ban, now) ELSE kernel
    IN  /\ pc' = IF h.panicked THEN "aborted" ELSE "running"
        /\ leroy' = h.self
        /\ hist' = IF is_some(h.ip)
                   THEN HistAfter(hist, h.ip[1], h.ban, now, leroy.args,
                                  h.ban.sent /\ ~Acked(Exchange(x, h.self.nlmsg_batch)), line)
                   ELSE hist
        /\ kernel' = k1
        /\ b2b' = [b2b EXCEPT ![line] = nth]
        /\ last' = [op |-> "line", at |-> now, line |-> line, limiter |-> h.limiter,
                    ip |-> h.ip, how |-> h.ban.how, built |-> h.ban.built,
                    sent |-> h.ban.sent, x |-> IF h.ban.sent THEN x ELSE "",
                    timeout |-> h.ban.timeout, recidivism |-> h.ban.recidivism,
                    nth |-> IF nth > 0 THEN nth ELSE 0,
                    prev |-> IF is_some(h.ip) /\ h.ip[1] \in DOMAIN hist
                             THEN Some(hist[h.ip[1]]) ELSE None,
                    reported |-> h.reported, err |-> "",
                    wrote |-> <<h.self.ipset_cache, h.self.recidivism_counts>>
                              # <<leroy.ipset_cache, leroy.recidivism_counts>>,
                    batch_moved |-> h.self.nlmsg_batch # leroy.nlmsg_batch,
                    kernel_moved |-> k1 # kernel,
                    seq0 |-> leroy.nlmsg_batch.seq, ack |-> h.ban.ack,
                    lim0 |-> leroy.ip_rate_limiters,
                    count0 |-> leroy.line_count, start0 |-> leroy.line_count_start]

\* main: leroy.handle_line(line), the body of the loop, the kernel behaving
\* as one of B.
IterateUnder(line, B) ==
    /\ \E x \in IF handle_line(leroy, line, now, "commit").ban.sent
                THEN B ELSE {"commit"} :
        Handled(line, x, handle_line(leroy, line, now, x),
                IF b2b[line] >= 0 THEN b2b[line] + 1 ELSE -1)
    /\ nlines' = nlines + 1
    /\ UNCHANGED <<now, checks, nogc>>

Iterate(line) == IterateUnder(line, Behaviours)

\* main: one iteration of the loop over the input lines, the line being any
\* of Lines.
HandleLine(line) ==
    /\ pc = "running"
    /\ nlines < MaxLines
    /\ Iterate(line)
    /\ UNCHANGED <<stdin, handed>>

\* One second passes.
Tick ==
    /\ pc = "running"
    /\ now < MaxTime
    /\ now' = now + 1
    /\ b2b' = [l \in Lines |-> IF b2b[l] = 0 THEN 0 ELSE -1]
    /\ last' = NoLast
    /\ UNCHANGED <<pc, leroy, kernel, nlines, hist, checks, stdin, handed, nogc>>

Next ==
    \/ New
    \/ \E line \in Lines : HandleLine(line)
    \/ Tick

Spec == Init /\ [][Next]_vars

\* ------------------------------------------------- the limiter on its own
\* A constructed Leroy whose limiter is then asked about one key; checks
\* records every answer as [at, fresh, ok], fresh meaning that the check found
\* no bucket for the key (never checked, or collected by maybe_gc).
InitLimiter ==
    /\ pc = "limiter"
    /\ \E a \in LimiterArgs : leroy = Leroy_new(a, 0, TRUE, "commit", "commit").self
    /\ now = 0
    /\ kernel = EmptyCache
    /\ nlines = 0
    /\ hist = EmptyCache
    /\ b2b = [l \in Lines |-> 0]
    /\ last = NoLast
    /\ checks = <<>>
    /\ stdin = NoInput
    /\ handed = <<>>
    /\ nogc = None

Checked(c, fresh) ==
    /\ leroy' = [leroy EXCEPT !.ip_rate_limiters = Some(c.lim)]
    /\ checks' = Append(checks, [at |-> now, fresh |-> fresh, ok |-> c.ok])

\* limiter.check_key(Key) at the current time.
CheckKey ==
    /\ pc = "limiter"
    /\ Len(checks) < MaxChecks
    /\ Checked(check_key(leroy.ip_rate_limiters[1], Key, now),
               Key \notin DOMAIN maybe_gc(leroy.ip_rate_limiters[1], now).buckets)
    /\ UNCHANGED <<pc, now, kernel, nlines, hist, b2b, last, stdin, handed, nogc>>

\* One second passes between two checks.
Elapse ==
    /\ pc = "limiter"
    /\ now < MaxTime
    /\ now' = now + 1
    /\ UNCHANGED <<pc, leroy, kernel, nlines, hist, b2b, last, checks, stdin, handed, nogc>>

NextLimiter == CheckKey \/ Elapse

SpecLimiter == InitLimiter /\ [][NextLimiter]_vars

\* ------------------------------------------------- limiter of many keys
\* The limiter checked for several keys, next to the same limiter without
\* maybe_gc. last records the check: the limiter before it (before), after
\* its maybe_gc (gc) and the outcome with (ok) and without collection (plain).
Keys == {"10.0.0.1", "bogus", ""}
MaxKeyChecks == 5

\* RateLimiter::check_key alone, the second line of KeyedLimiter::check_key.
rate_limiter_check_key(lim, key, t0) ==
    LET r == measure_and_replace(lim.buckets, key, lim.quota, t0)
    IN  [ok |-> r.ok, lim |-> [lim EXCEPT !.buckets = r.buckets]]

InitKeys ==
    /\ pc = "limiter"
    /\ \E a \in LimiterArgs : leroy = Leroy_new(a, 0, TRUE, "commit", "commit").self
    /\ nogc = leroy.ip_rate_limiters
    /\ now = 0
    /\ kernel = EmptyCache
    /\ nlines = 0
    /\ hist = EmptyCache
    /\ b2b = [l \in Lines |-> 0]
    /\ last = [op |-> "none"]
    /\ checks = <<>>
    /\ stdin = NoInput
    /\ handed = <<>>

CheckedKey(key, c, plain) ==
    /\ leroy' = [leroy EXCEPT !.ip_rate_limiters = Some(c.lim)]
    /\ nogc' = Some(plain.lim)
    /\ last' = [op |-> "check", key |-> key, at |-> now, ok |-> c.ok, plain |-> plain.ok,
                before |-> leroy.ip_rate_limiters[1],
                gc |-> maybe_gc(leroy.ip_rate_limiters[1], now)]

\* limiter.check_key(key) at the current time.
CheckKeyOf(key) ==
    /\ pc = "limiter"
    /\ nlines < MaxKeyChecks
    /\ CheckedKey(key, check_key(leroy.ip_rate_limiters[1], key, now),
                  rate_limiter_check_key(nogc[1], key, now))
    /\ nlines' = nlines + 1
    /\ UNCHANGED <<pc, now, kernel, hist, b2b, checks, stdin, handed>>

NextKeys ==
    \/ \E key \in Keys : CheckKeyOf(key)
    \/ Elapse

SpecKeys == InitKeys /\ [][NextKeys]_vars

\* ------------------------------------------------- a long-running process
\* The process after many bans: the counter started at 0 and each ban added 5
\* modulo 2^32, which is odd against 5, so every u32 value is the counter at
\* the start of some ban. The buffer holds the batch of an earlier ban built
\* from s; the caches and the kernel's sets are those of an instance whose
\* startup bans were committed at time 0.
SeqStarts ==
    {<<U16 - 1, U16 - 1 - k>> : k \in 6..10} \cup {<<0, U16 - 10>>}
WrapArgs == {ArgsOf(<<0, 0>>, d, dry, 1) : d \in Durations, dry \in BOOLEAN}
LongRun(a, s, n) ==
    [n.self EXCEPT !.nlmsg_batch =
        build_batch(NlmsgBatch_new(s), NftnlSet(a, StartupV6, time_to_ban(a, 1))).batch]

InitWrapped(a, s, n) ==
    /\ leroy = LongRun(a, s, n)
    /\ kernel = KernelAfter(KernelAfter(EmptyCache, StartupV4, n.bans[1], 0),
                            StartupV6, n.bans[2], 0)
    /\ hist = HistAfter(HistAfter(EmptyCache, StartupV4, n.bans[1], 0, a, FALSE, "startup"),
                        StartupV6, n.bans[2], 0, a, FALSE, "startup")

InitWrap ==
    /\ pc = "running"
    /\ \E a \in WrapArgs, s \in SeqStarts :
          InitWrapped(a, s, Leroy_new(a, 0, TRUE, "commit", "commit"))
    /\ now = 0
    /\ nlines = 0
    /\ b2b = [l \in Lines |-> 0]
    /\ last = NoLast
    /\ checks = <<>>
    /\ stdin = NoInput
    /\ handed = <<>>
    /\ nogc = None

NextWrap == \E line \in Lines : HandleLine(line)

SpecWrap == InitWrap /\ [][NextWrap]_vars

\* --------------------------------------------------- stray socket messages
\* A live process after Leroy::new, on a socket that can hold a stray message.
StrayArgs == {ArgsOf(l, d, FALSE, 1) : l \in {<<0, 0>>, <<1, 1>>}, d \in Durations}

InitStray ==
    /\ pc = "running"
    /\ \E a \in StrayArgs :
          InitWrapped(a, <<0, 5>>, Leroy_new(a, 0, TRUE, "commit", "commit"))
    /\ now = 0
    /\ nlines = 0
    /\ b2b = [l \in Lines |-> 0]
    /\ last = NoLast
    /\ checks = <<>>
    /\ stdin = NoInput
    /\ handed = <<>>
    /\ nogc = None

HandleLineStray(line) ==
    /\ pc = "running"
    /\ nlines < MaxLines
    /\ IterateUnder(line, StrayBehaviours)
    /\ UNCHANGED <<stdin, handed>>

NextStray ==
    \/ \E line \in Lines : HandleLineStray(line)
    \/ Tick

SpecStray == InitStray /\ [][NextStray]_vars

\* ------------------------------------------------- two spellings of one ip
\* A live process after Leroy::new with a limiter of one event per second, fed
\* only the two spellings of 2001:db8::1 (handle_line checks the limiter with
\* the line's bytes and calls ban with the parsed address).
MaxSpellLines == 5

Spellings == {line \in Lines : parse_ascii(line) = Some(StartupV6)}

SpellArgs == {ArgsOf(<<1, 1>>, d, dry, 1) : d \in Durations, dry \in BOOLEAN}

InitSpell ==
    /\ pc = "running"
    /\ \E a \in SpellArgs :
          InitWrapped(a, <<0, 5>>, Leroy_new(a, 0, TRUE, "commit", "commit"))
    /\ now = 0
    /\ nlines = 0
    /\ b2b = [l \in Lines |-> 0]
    /\ last = NoLast
    /\ checks = <<>>
    /\ stdin = NoInput
    /\ handed = <<>>
    /\ nogc = None

HandleSpelling(line) ==
    /\ pc = "running"
    /\ nlines < MaxSpellLines
    /\ Iterate(line)
    /\ UNCHANGED <<stdin, handed>>

NextSpell ==
    \/ \E line \in Spellings : HandleSpelling(line)
    \/ Tick

SpecSpell == InitSpell /\ [][NextSpell]_vars

\* ------------------------------------------------------- the line report
\* A live process that bans on sight, after Leroy::new at time 0 and c lines
\* that did not parse, all at time 0: they changed line_count only, and none
\* reported, since no time had passed since line_count_start.
MaxReportLines == 3

LineCounts == {8, 9, 18, 19}

ReportPeriods == {1, 2}

ReportLines == {"10.0.0.1", "bogus"}

ReportArgs ==
    {[ArgsOf(<<0, 0>>, d, dry, 1) EXCEPT !.reporting_ip_time_period = p] :
        d \in Durations, dry \in BOOLEAN, p \in ReportPeriods}

Reporting(a, c, n) ==
    /\ leroy = [LongRun(a, <<0, 5>>, n) EXCEPT !.line_count = c]
    /\ kernel = KernelAfter(KernelAfter(EmptyCache, StartupV4, n.bans[1], 0),
                            StartupV6, n.bans[2], 0)
    /\ hist = HistAfter(HistAfter(EmptyCache, StartupV4, n.bans[1], 0, a, FALSE, "startup"),
                        StartupV6, n.bans[2], 0, a, FALSE, "startup")

InitReport ==
    /\ pc = "running"
    /\ \E a \in ReportArgs, c \in LineCounts :
          Reporting(a, c, Leroy_new(a, 0, TRUE, "commit", "commit"))
    /\ now = 0
    /\ nlines = 0
    /\ b2b = [l \in Lines |-> 0]
    /\ last = NoLast
    /\ checks = <<>>
    /\ stdin = NoInput
    /\ handed = <<>>
    /\ nogc = None

HandleCountedLine(line) ==
    /\ pc = "running"
    /\ nlines < MaxReportLines
    /\ Iterate(line)
    /\ UNCHANGED <<stdin, handed>>

NextReport ==
    \/ \E line \in ReportLines : HandleCountedLine(line)
    \/ Tick

SpecReport == InitReport /\ [][NextReport]_vars

\* ------------------------------------------------------------ main's loop
\* main run on an input stream: Leroy::new(args)?, then the loop over
\* stdin.lock().split(b'\n'), then Ok(()).
InitMain ==
    /\ pc = "init"
    /\ \E a \in Args : leroy = Blank(a)
    /\ now = 0
    /\ kernel = EmptyCache
    /\ nlines = 0
    /\ hist = EmptyCache
    /\ b2b = [l \in Lines |-> 0]
    /\ last = NoLast
    /\ checks = <<>>
    /\ stdin \in Streams
    /\ handed = <<>>
    /\ nogc = None

\* The iterator yields Some(Ok(line)): leroy.handle_line(line).
ReadLine ==
    /\ pc = "running"
    /\ split_next(stdin).kind = "line"
    /\ Iterate(split_next(stdin).line)
    /\ stdin' = [stdin EXCEPT !.pos = split_next(stdin).pos]
    /\ handed' = Append(handed, split_next(stdin).line)

\* The iterator yields Some(Err(e)): line? returns the error from main.
ReadError ==
    /\ pc = "running"
    /\ split_next(stdin).kind = "err"
    /\ pc' = "failed"
    /\ last' = [NoLast EXCEPT !.op = "read", !.err = "io"]
    /\ UNCHANGED <<leroy, now, kernel, nlines, hist, b2b, checks, stdin, handed, nogc>>

\* The iterator yields None: the loop ends and main returns Ok(()).
Eof ==
    /\ pc = "running"
    /\ split_next(stdin).kind = "eof"
    /\ pc' = "exited"
    /\ last' = [NoLast EXCEPT !.op = "eof"]
    /\ UNCHANGED <<leroy, now, kernel, nlines, hist, b2b, checks, stdin, handed, nogc>>

NextMain == New \/ ReadLine \/ ReadError \/ Eof

SpecMain == InitMain /\ [][NextMain]_vars

\* ------------------------------------------- set_timeout on its own
\* Ban durations in whole seconds, as limbs, up to Duration::MAX: small ones,
\* the largest whose milliseconds fit in 64 bits and its neighbours, huge ones.
TimeoutDurations ==
    {<<a, b, c, d>> : a \in {0, 65, 66, 65535}, b \in {0, 35127, 65535},
                      c \in {0, 19398, 65535}, d \in {0, 3, 42991, 42992, 65535}}

\* An element is about to get the timeout of a ban of duration last.timeout.
InitTimeout ==
    /\ pc = "timeout"
    /\ \E a \in LimiterArgs : leroy = Blank(a)
    /\ now = 0
    /\ kernel = EmptyCache
    /\ nlines = 0
    /\ hist = EmptyCache
    /\ b2b = [l \in Lines |-> 0]
    /\ \E d \in TimeoutDurations : last = [NoLast EXCEPT !.op = "duration", !.timeout = d]
    /\ checks = <<>>
    /\ stdin = NoInput
    /\ handed = <<>>
    /\ nogc = None

\* elem.set_timeout(timeout): checks records the duration and the value set.
SetTimeout ==
    /\ pc = "timeout"
    /\ checks = <<>>
    /\ checks' = <<[duration |-> last.timeout, timeout |-> set_timeout_u64(last.timeout)]>>
    /\ UNCHANGED <<pc, leroy, now, kernel, nlines, hist, b2b, last, stdin, handed, nogc>>

SpecTimeout == InitTimeout /\ [][SetTimeout]_vars

\* ------------------------------------------- the recidivism count as a u32
\* The count of Leroy::ban in its own width: a u32 is two 16-bit limbs, the
\* most significant first.  Every committed ban inside ipset_ban_ttl adds 1 to
\* the count of the address, starting from 1, so every u32 value is the count
\* of an address after that many bans.
MaxBans == 3

U32Max == <<U16 - 1, U16 - 1>>

\* count + 1 on a u32 (lib.rs line 201): at u32::MAX the addition overflows,
\* which panics in a build with overflow checks and wraps to 0 in one without.
add_one(count, overflow_checks) ==
    IF count = U32Max
    THEN [panicked |-> overflow_checks, value |-> U32Zero]
    ELSE [panicked |-> FALSE, value |-> wrapping_add_1(count)]

\* Args::time_to_ban on a count in limbs, in whole seconds as the four limbs
\* of a u64: base_time.checked_mul(ban_count).unwrap_or(Duration::MAX).
time_to_ban_u32(args, ban_count) ==
    LET p == mul_limbs(<<0, 0, ban_count[1], ban_count[2]>>, args.ipset_base_time, 0)
    IN  IF p[1] = 0 THEN SubSeq(p, 2, 5) ELSE U64Max

\* The counts an address has after a few bans, after enough bans to carry
\* into the upper limb, and after nearly 2^32 bans.
CountStarts ==
    {<<0, 1>>, <<0, 2>>, <<0, U16 - 1>>, <<1, 0>>,
     <<U16 - 1, U16 - 3>>, <<U16 - 1, U16 - 2>>, U32Max}

CountArgs == {ArgsOf(<<0, 0>>, d, TRUE, 1) : d \in Durations}

\* A dry-run process whose last ban of 10.0.0.1, at time 0, left the count c.
InitCount ==
    /\ pc = "count"
    /\ \E a \in CountArgs, c \in CountStarts :
          leroy = [Blank(a) EXCEPT
                      !.ipset_cache = insert(EmptyCache, V4(10, 0, 0, 1), TRUE, 0),
                      !.recidivism_counts = insert(EmptyCache, V4(10, 0, 0, 1), c, 0)]
    /\ now = 0
    /\ kernel = EmptyCache
    /\ nlines = 0
    /\ hist = EmptyCache
    /\ b2b = [l \in Lines |-> 0]
    /\ last = NoLast
    /\ checks = <<>>
    /\ stdin = NoInput
    /\ handed = <<>>
    /\ nogc = None

\* Leroy::ban(10.0.0.1) with the count in its width: suppressed, or the count
\* is read, incremented and turned into the timeout, and written back when the
\* exchange passed.
CountedBan(overflow_checks, committed) ==
    LET ip == V4(10, 0, 0, 1)
        prev == get(leroy.recidivism_counts, recidivism_ttl(leroy.args), ip, now)
        r == add_one(unwrap_or(prev, U32Zero), overflow_checks)
    IN  /\ pc = "count"
        /\ nlines < MaxBans
        /\ nlines' = nlines + 1
        /\ IF contains_key(leroy.ipset_cache, ipset_cache_ttl(leroy.args), ip, now)
           THEN /\ last' = [NoLast EXCEPT !.op = "count", !.at = now, !.how = "suppressed"]
                /\ UNCHANGED <<pc, leroy>>
           ELSE IF r.panicked
           THEN /\ pc' = "aborted"
                /\ last' = [NoLast EXCEPT !.op = "count", !.at = now, !.how = "panicked",
                                          !.prev = prev]
                /\ UNCHANGED leroy
           ELSE /\ pc' = pc
                /\ last' = [NoLast EXCEPT
                               !.op = "count", !.at = now, !.prev = prev,
                               !.how = IF committed THEN "banned" ELSE "failed",
                               !.recidivism = r.value,
                               !.timeout = time_to_ban_u32(leroy.args, r.value)]
                /\ leroy' = IF committed
                            THEN [leroy EXCEPT
                                    !.ipset_cache = insert(leroy.ipset_cache, ip, TRUE, now),
                                    !.recidivism_counts =
                                        insert(leroy.recidivism_counts, ip, r.value, now)]
                            ELSE leroy
        /\ UNCHANGED <<now, kernel, hist, b2b, checks, stdin, handed, nogc>>

\* One second passes.
CountTick ==
    /\ pc = "count"
    /\ now < MaxTime
    /\ now' = now + 1
    /\ UNCHANGED <<pc, leroy, kernel, nlines, hist, b2b, last, checks, stdin, handed, nogc>>

NextCount ==
    \/ \E overflow_checks \in BOOLEAN, committed \in BOOLEAN :
          CountedBan(overflow_checks, committed)
    \/ CountTick

SpecCount == InitCount /\ [][NextCount]_vars

\* ------------------------------------------------------------ C1 and C2
bl_threshold == leroy.args.bl_threshold
bl_period == leroy.args.bl_period

\* The checks made at times in [s, s + bl_period).
Window(s) == {i \in 1..Len(checks) : s <= checks[i].at /\ checks[i].at < s + bl_period}
Denials(w) == {i \in w : ~checks[i].ok}

\* The checks from the i-th on that fall within bl_period of it.
WindowFrom(i) == {j \in Window(checks[i].at) : j >= i}

C2_FullReplenishment ==
    \A i \in 1..Len(checks) :
        (/\ ~checks[i].ok
         /\ i < Len(checks)
         /\ checks[i + 1].at >= checks[i].at + bl_period) =>
            \A j \in (i + 1)..Len(checks) :
                (j <= i + bl_threshold /\ checks[j].at = checks[i + 1].at) => checks[j].ok

\* The case of C2: a denial, a pause of bl_period, then bl_threshold >= 2
\* back-to-back checks.
C2_Witness ==
    \E i \in 1..Len(checks) :
        /\ ~checks[i].ok
        /\ bl_threshold >= 2
        /\ i + bl_threshold <= Len(checks)
        /\ checks[i + 1].at >= checks[i].at + bl_period
        /\ checks[i + bl_threshold].at = checks[i + 1].at

\* ------------------------------------------------------------ C3 to C10
base_time == leroy.args.ipset_base_time
ban_ttl == leroy.args.ipset_ban_ttl
ByLine == last.op = "line"
BanCalled == last.how \in {"suppressed", "banned", "failed"}
Submitted == last.how \in {"banned", "failed"}

\* The ban before this one of the same IP, from the record of committed bans:
\* how long ago it was and its number in its recidivism window.
HasPrev == Len(last.prev) = 1
PrevAge == last.at - last.prev[1].at
PrevCount == last.prev[1].k

\* The set element of the i-th message of the batch in the buffer.
Elem(i) == leroy.nlmsg_batch.msgs[i].set[1].elems[1]

\* C3 as stated: of the back-to-back calls for an unseen line the first
\* bl_threshold are admitted without a ban or a cache write, and the next one
\* is denied and, when the line is an address, bans it for base_time * 1.
C3_BurstThenOneBan ==
    (ByLine /\ last.limiter # "absent" /\ last.nth >= 1) =>
        /\ last.nth <= bl_threshold =>
              last.limiter = "admitted" /\ ~BanCalled /\ ~last.built /\ ~last.wrote
        /\ (last.nth = bl_threshold + 1 /\ is_some(last.ip)) =>
              last.limiter = "denied" /\ Submitted /\ last.timeout = base_time * 1

\* C3: of the back-to-back calls for an unseen line the first bl_threshold are
\* admitted without a ban, a batch or a cache write; the next one is denied and,
\* when the line is an address, calls ban for it: no batch while a suppression
\* entry of the address is live, else one batch whose timeout is base_time times
\* (the live recidivism count + 1), which is base_time * 1 when the address has
\* no live recidivism entry.
C3_BurstThenBanCall ==
    (ByLine /\ last.limiter # "absent" /\ last.nth >= 1) =>
        /\ last.nth <= bl_threshold =>
              /\ last.limiter = "admitted" /\ ~BanCalled
              /\ ~last.built /\ ~last.wrote /\ ~last.kernel_moved
        /\ last.nth = bl_threshold + 1 => last.limiter = "denied"
        /\ (last.nth = bl_threshold + 1 /\ is_some(last.ip)) =>
              /\ BanCalled
              /\ (HasPrev /\ PrevAge < Max(0, base_time - 1)) => last.how = "suppressed"
              /\ (HasPrev /\ PrevAge >= Max(0, base_time - 1) /\ PrevAge < ban_ttl) =>
                    Submitted /\ last.timeout = base_time * (PrevCount + 1)
              /\ (~HasPrev \/ (PrevAge >= Max(0, base_time - 1) /\ PrevAge >= ban_ttl)) =>
                    Submitted /\ last.timeout = base_time * 1
              /\ Submitted => Elem(4).timeout = last.timeout * 1000

\* The call after the burst of an unseen address bans it for base_time * 1.
C3_Witness ==
    /\ ByLine /\ bl_threshold >= 2 /\ last.nth = bl_threshold + 1
    /\ last.limiter = "denied" /\ last.how = "banned" /\ ~HasPrev
    /\ last.timeout = base_time

\* C4: a ban call that finds the suppression entry of its address live returns
\* Ok without building or sending a batch and leaves both caches, the sequence
\* counter and the kernel set as they were; and the entry is live, so the call
\* is such a call, whenever a ban of the address was committed less than
\* max(0, base_time - 1) ago.
C4_SuppressionIdempotent ==
    /\ last.how = "suppressed" =>
          /\ pc = "running"
          /\ ~last.built /\ ~last.sent
          /\ ~last.wrote /\ ~last.batch_moved /\ ~last.kernel_moved
    /\ (ByLine /\ BanCalled /\ HasPrev /\ PrevAge < Max(0, base_time - 1)) =>
          last.how = "suppressed"

\* A second ban call for an address made while its suppression entry is live.
C4_Witness ==
    /\ ByLine /\ last.how = "suppressed" /\ HasPrev /\ PrevAge >= 1
    /\ ~is_some(leroy.socket) = leroy.args.dry_run

C6_SuppressionThenDouble ==
    (ByLine /\ last.limiter = "absent" /\ BanCalled /\ HasPrev /\ PrevCount = 1) =>
        /\ PrevAge < Max(0, base_time - 1) => ~Submitted
        /\ PrevAge > Max(0, base_time - 1) => Submitted /\ last.timeout = 2 * base_time

\* C6: in ban-on-sight mode the line for an address banned once is not
\* submitted when it comes earlier than max(0, base_time - 1) after the ban;
\* when it comes at that time or later it is submitted, with timeout
\* 2 * base_time if it comes less than ipset_ban_ttl after the ban and with
\* timeout base_time otherwise.
C6_SuppressionThenRecidivism ==
    (ByLine /\ last.limiter = "absent" /\ BanCalled /\ HasPrev /\ PrevCount = 1) =>
        /\ PrevAge < Max(0, base_time - 1) => ~Submitted /\ ~last.built /\ ~last.sent
        /\ PrevAge >= Max(0, base_time - 1) =>
              /\ Submitted
              /\ last.timeout = IF PrevAge < ban_ttl THEN 2 * base_time ELSE base_time

\* The line that comes just as the suppression of a real ban ends.
C6_Witness ==
    /\ ByLine /\ last.limiter = "absent" /\ HasPrev /\ PrevCount = 1
    /\ base_time >= 2 /\ PrevAge = base_time - 1
    /\ last.how = "banned" /\ last.timeout = 2 * base_time

\* The five messages of a batch for the set element of ip with timeout.
Framed(msgs, ip, timeout) ==
    /\ Len(msgs) = 5
    /\ <<msgs[1].type, msgs[2].type, msgs[3].type, msgs[4].type, msgs[5].type>>
         = <<"BATCH_BEGIN", "NFT_MSG_NEWSETELEM", "NFT_MSG_DELSETELEM",
             "NFT_MSG_NEWSETELEM", "BATCH_END">>
    /\ msgs[2].flags = {"CREATE", "REQUEST"}
    /\ msgs[3].flags = {"CREATE", "REQUEST"}
    /\ msgs[4].flags = {"CREATE", "REQUEST", "ACK"}
    /\ \A i \in {1, 2, 3, 5} : "ACK" \notin msgs[i].flags
    /\ \A i \in {2, 3, 4} :
          /\ Len(msgs[i].set) = 1
          /\ msgs[i].set[1].elems = <<[key |-> as_octets(ip), timeout |-> timeout * 1000]>>

\* C7: the batch handed to the socket is BATCH_BEGIN, NEWSETELEM
\* (CREATE|REQUEST), DELSETELEM (CREATE|REQUEST), NEWSETELEM
\* (CREATE|REQUEST|ACK), BATCH_END, five messages and no more, the ACK flag on
\* the fourth only, each of the three inner messages carrying the element of
\* this ban.
C7_BatchFraming ==
    (last.sent /\ is_some(last.ip)) =>
        Framed(leroy.nlmsg_batch.msgs, last.ip[1], last.timeout)

\* A batch sent for a line, after the batches of the two startup bans.
C7_Witness ==
    /\ ByLine /\ last.sent /\ last.ip = Some(V4(10, 0, 0, 1))
    /\ U32Less(<<0, 10>>, leroy.nlmsg_batch.seq)

\* The kernel behaviours C8 names.
KernelErrors == {"send_short", "recv_err", "reject", "stale_ack", "foreign_ack"}

\* C8: a ban that sends its batch and meets a short send, a failed read, an
\* acknowledgement with an error code or a message with another sequence
\* number or port id returns Err; in handle_line that ends the process and no
\* line is handled after it, in Leroy::new it is returned as the startup error.
C8_FatalOnKernelError ==
    /\ (last.sent /\ last.x \in KernelErrors) =>
          /\ last.how = "failed"
          /\ ByLine => pc = "aborted"
          /\ last.op = "new" => pc = "failed" /\ last.err = "ban"
    /\ pc = "aborted" => last.how = "failed" /\ ~ENABLED Next

\* The process aborted on a rejected batch with lines still to come.
C8_Witness ==
    /\ pc = "aborted" /\ last.x = "reject" /\ last.sent /\ nlines < MaxLines

\* C9 as stated: a ban that sent its batch is committed only when the
\* acknowledgement of the expected sequence number came back.
C9_CommitOnlyAfterAck ==
    (last.sent /\ last.how = "banned") => last.x = "commit"

\* A ban committed although the response held no acknowledgement.
C9_Witness ==
    /\ ByLine /\ last.sent /\ last.how = "banned" /\ last.wrote
    /\ last.x \in {"silent", "noop"}

\* C10: a line that is selected for a ban and is no address takes the error
\* arm: both caches, the batch with its sequence counter and the kernel set
\* stay as they were, and the process is still running, which is all the loop
\* asks for to handle the next line.
C10_ParseErrorSkipped ==
    (ByLine /\ last.limiter # "admitted" /\ ~is_some(parse_ascii(last.line))) =>
        /\ last.how = "parse_error"
        /\ pc = "running"
        /\ ~last.built /\ ~last.sent
        /\ ~last.wrote /\ ~last.batch_moved /\ ~last.kernel_moved

\* The empty line denied by the limiter and skipped.
C10_Witness ==
    /\ ByLine /\ last.line = "" /\ last.limiter = "denied"
    /\ last.how = "parse_error" /\ nlines < MaxLines

\* ----------------------------------------------------------- C11 to C20
\* C11: with bl_threshold = 0, whatever bl_period is, the constructed Leroy has
\* no limiter, and every line that is an address calls ban for that address at
\* once, its first occurrence included: the ban is suppressed exactly when a
\* ban of the address was committed less than max(0, base_time - 1) ago, and
\* is submitted otherwise.
C11_BanOnSight ==
    bl_threshold = 0 =>
        /\ ~is_some(leroy.ip_rate_limiters)
        /\ (ByLine /\ is_some(parse_ascii(last.line))) =>
              /\ last.limiter = "absent"
              /\ last.ip = parse_ascii(last.line)
              /\ BanCalled
              /\ (last.how = "suppressed") <=> (HasPrev /\ PrevAge < Max(0, base_time - 1))
              /\ (last.how # "suppressed") => Submitted /\ last.built

\* The first occurrence of an address is banned with no limiter and a
\* non-zero bl_period.
C11_Witness ==
    /\ ByLine /\ bl_threshold = 0 /\ bl_period > 0
    /\ last.nth = 1 /\ last.ip = Some(V4(10, 0, 0, 1)) /\ last.how = "banned"

\* C12: with bl_threshold > 0 and bl_period = 0, Leroy::new returns an error
\* (for the quota, or for the socket, which is opened first): the loop over the
\* lines is never entered, no batch is built or sent, the kernel set and both
\* caches stay empty and the sequence counter stays 0.
C12_InvalidLimiterIsStartupError ==
    (bl_threshold > 0 /\ bl_period = 0 /\ pc # "init") =>
        /\ pc = "failed"
        /\ last.op = "new" /\ last.err \in {"quota", "socket"}
        /\ nlines = 0
        /\ ~last.built /\ ~last.sent
        /\ leroy.nlmsg_batch = NlmsgBatch_new(U32Zero)
        /\ DOMAIN leroy.ipset_cache = {} /\ DOMAIN leroy.recidivism_counts = {}
        /\ DOMAIN kernel = {}

\* Leroy::new refused a zero period although the socket could be opened.
C12_Witness ==
    /\ pc = "failed" /\ last.err = "quota"
    /\ bl_threshold > 0 /\ bl_period = 0 /\ ~leroy.args.dry_run

\* The same Leroy in a live run: the socket is there, --dry-run is off.
Live(l) == [l EXCEPT !.socket = Some(Portid), !.args.dry_run = FALSE]

\* What Leroy::new returned in a dry run (d) and in a live run (l) agree.
SameNew(d, l) == d.err = l.err /\ (d.err = "" => l.self = Live(d.self))

\* C13: a dry run builds its batches and sends none, and it moves in step with
\* the live run whose every exchange succeeds: Leroy::new leaves the same
\* struct (socket aside) in both, and from a state of the dry run every line
\* takes both to the same struct again, so both caches, the batch buffer and
\* the sequence counter are the same after every input.
C13_DryRunEquivalence ==
    leroy.args.dry_run =>
        /\ BanCalled => ~last.sent /\ (Submitted <=> last.built)
        /\ pc = "init" =>
              SameNew(Leroy_new(leroy.args, now, TRUE, "commit", "commit"),
                      Leroy_new(Live(leroy).args, now, TRUE, "commit", "commit"))
        /\ pc = "running" =>
              \A line \in Lines :
                  /\ handle_line(Live(leroy), line, now, "commit").self
                       = Live(handle_line(leroy, line, now, "commit").self)
                  /\ ~handle_line(Live(leroy), line, now, "commit").panicked

\* A dry run that banned an address for a line: batch built, nothing sent.
C13_Witness ==
    /\ leroy.args.dry_run /\ ByLine /\ last.how = "banned"
    /\ last.built /\ ~last.sent /\ last.wrote /\ last.recidivism >= 2

\* l divided by k, from the most significant limb: [q, r].
RECURSIVE div_limbs(_, _, _)
div_limbs(l, k, rem) ==
    IF l = <<>> THEN [q |-> <<>>, r |-> rem]
    ELSE LET n == rem * U16 + l[1]
             rest == div_limbs(Tail(l), k, n % k)
         IN  [q |-> <<n \div k>> \o rest.q, r |-> rest.r]

\* a <= b for two numbers of as many limbs.
RECURSIVE leq_limbs(_, _)
leq_limbs(a, b) ==
    \/ a = <<>>
    \/ a[1] < b[1]
    \/ a[1] = b[1] /\ leq_limbs(Tail(a), Tail(b))

\* C14: the timeout set in the element is the duration in milliseconds, that
\* is a 64-bit value whose quotient by 1000 is the number of seconds with
\* remainder 0, for every duration whose milliseconds fit in 64 bits (at most
\* u64::MAX / 1000 seconds); for every longer duration it is u64::MAX.
C14_TimeoutMillis ==
    \A i \in 1..Len(checks) :
        pc = "timeout" =>
            IF leq_limbs(checks[i].duration, div_limbs(U64Max, 1000, 0).q)
            THEN div_limbs(checks[i].timeout, 1000, 0) = [q |-> checks[i].duration, r |-> 0]
            ELSE checks[i].timeout = U64Max

\* A duration one second too long for 64 bits of milliseconds, saturated.
C14_Witness ==
    /\ pc = "timeout" /\ Len(checks) = 1
    /\ checks[1].duration = <<65, 35127, 19398, 42992>>
    /\ checks[1].timeout = U64Max

\* The i-th message of the batch in the buffer names the set of the family of
\* ip and holds one element whose key is the raw octets of ip.
Routed(i, ip) ==
    LET set == leroy.nlmsg_batch.msgs[i].set[1]
    IN  /\ set.table = leroy.args.table
        /\ Len(set.elems) = 1
        /\ set.elems[1].key = ip.octets
        /\ ip.family = "V4" =>
              set.name = leroy.args.ipset_ipv4_name /\ Len(set.elems[1].key) = 4
        /\ ip.family = "V6" =>
              set.name = leroy.args.ipset_ipv6_name /\ Len(set.elems[1].key) = 16

\* Every batch built for a ban is routed by the family of its address.
RoutedByFamily ==
    (last.built /\ is_some(last.ip)) => \A i \in {2, 3, 4} : Routed(i, last.ip[1])

\* C15 as stated: batches are routed by family, and in ban-on-sight mode the
\* line "2001:db8::1" builds a batch with the V6 element.
C15_RoutingAndV6Line ==
    /\ RoutedByFamily
    /\ (ByLine /\ last.limiter = "absent" /\ last.line = "2001:db8::1") =>
          last.built /\ last.ip = Some(StartupV6)

\* C15: batches are routed by family: a V4 address goes with its 4 octets to
\* the set ipset_ipv4_name, a V6 address with its 16 octets to ipset_ipv6_name;
\* in ban-on-sight mode the line "2001:db8::1" calls ban for that V6 address,
\* which builds such a batch unless a ban of the address, that of Leroy::new
\* included, was committed less than max(0, base_time - 1) ago.
C15_RoutingAndV6LineUnlessSuppressed ==
    /\ RoutedByFamily
    /\ (ByLine /\ last.limiter = "absent" /\ last.line = "2001:db8::1") =>
          /\ last.ip = Some(StartupV6)
          /\ BanCalled
          /\ last.built <=> ~(HasPrev /\ PrevAge < Max(0, base_time - 1))
          /\ last.built => Routed(4, StartupV6) /\ Elem(4).key[1] = 32

\* Both families routed: the V6 line built its batch after the V4 startup ban.
C15_Witness ==
    /\ ByLine /\ last.limiter = "absent" /\ last.line = "2001:db8::1"
    /\ last.built /\ leroy.nlmsg_batch.msgs[4].set[1].name = "leroy6"
    /\ StartupV4 \in DOMAIN hist

\* C16: a ban for a later line is never submitted before the ban of an
\* earlier line has been submitted and acknowledged: when a line's ban is sent,
\* no committed ban of an earlier line was sent without an acknowledgement in
\* the kernel's response.
C16_LaterAfterEarlierAcked ==
    (ByLine /\ last.sent) =>
        /\ HasPrev => ~last.prev[1].noack
        /\ \A i \in DOMAIN hist \ {last.ip[1]} : ~hist[i].noack

\* A later line's ban is sent while the ban of an earlier line, for another
\* address, was committed on a response without acknowledgement.
C16_Witness ==
    /\ ByLine /\ last.sent
    /\ \E i \in DOMAIN hist \ {last.ip[1]} : hist[i].noack

\* The lines of a byte sequence: its records and the empty runs between two NL
\* (or before a leading NL), in order.
RECURSIVE LinesOf(_)
LinesOf(s) ==
    IF s = <<>> THEN <<>>
    ELSE IF s[1] = NL THEN <<"">> \o LinesOf(Tail(s))
    ELSE <<s[1]>> \o LinesOf(SubSeq(s, 3, Len(s)))

FiniteInput == pc # "timeout" /\ pc # "limiter" /\ stdin.end = "eof"

\* The lines handed so far are the first lines of the stream, each once and in
\* order, without their newlines.
HandedInOrder ==
    /\ Len(handed) <= Len(LinesOf(stdin.bytes))
    /\ handed = SubSeq(LinesOf(stdin.bytes), 1, Len(handed))
    /\ \A i \in 1..Len(handed) : handed[i] \in Records \cup {""}

AddMod(a, n) == <<(a[1] + (a[2] + n) \div U16) % U16, (a[2] + n) % U16>>

\* The sequence number of the i-th message of the batch in the buffer.
SeqOf(i) == leroy.nlmsg_batch.msgs[i].seq

\* The counter values from which a batch of five crosses from u32::MAX to 0.
WrapsInside(s) == s[1] = U16 - 1 /\ s[2] \in (U16 - 5)..(U16 - 2)

\* C18 as stated: the sequence numbers of the five messages of every batch are
\* strictly increasing, whatever the counter was at the start of the ban.
C18_StrictlyIncreasing ==
    (ByLine /\ last.built) =>
        /\ Len(leroy.nlmsg_batch.msgs) = 5
        /\ \A i \in 1..4 : U32Less(SeqOf(i), SeqOf(i + 1))

\* C18: in every batch each of the five messages carries the number of the
\* one before plus 1 modulo 2^32, the first the counter at the start of the
\* ban plus 1; the numbers are strictly increasing unless that counter is one
\* of u32::MAX - 4 .. u32::MAX - 1, where they pass from u32::MAX to 0 inside
\* the batch.
C18_IncreasingUnlessWrapInside ==
    (ByLine /\ last.built) =>
        /\ Len(leroy.nlmsg_batch.msgs) = 5
        /\ SeqOf(1) = AddMod(last.seq0, 1)
        /\ \A i \in 1..4 : SeqOf(i + 1) = AddMod(SeqOf(i), 1)
        /\ (\A i \in 1..4 : U32Less(SeqOf(i), SeqOf(i + 1))) <=> ~WrapsInside(last.seq0)

\* A batch numbered u32::MAX - 1, u32::MAX, 0, 1, 2.
C18_Witness ==
    /\ ByLine /\ last.built
    /\ last.seq0 = <<U16 - 1, U16 - 3>>
    /\ SeqOf(2) = <<U16 - 1, U16 - 1>> /\ SeqOf(3) = U32Zero /\ SeqOf(5) = <<0, 2>>

\* C19: every ban that is not suppressed, live or dry-run, advances the one
\* counter by five modulo 2^32, one step per message in batch order; the
\* counter is always the number of the BATCH_END in the buffer, so the
\* BATCH_BEGIN of a ban is the BATCH_END of the ban before plus 1; the number
\* the validator expects is that of the final NEW_SET_ELEM, the BATCH_END
\* number minus 1; a suppressed ban and a line without ban leave the counter.
C19_SequenceDiscipline ==
    /\ leroy.nlmsg_batch.msgs # <<>> =>
          Len(leroy.nlmsg_batch.msgs) = 5 /\ SeqOf(5) = leroy.nlmsg_batch.seq
    /\ (ByLine /\ Submitted) =>
          /\ last.built
          /\ leroy.nlmsg_batch.seq = AddMod(last.seq0, 5)
          /\ \A i \in 1..5 : SeqOf(i) = AddMod(last.seq0, i)
          /\ leroy.nlmsg_batch.msgs[4].type = "NFT_MSG_NEWSETELEM"
          /\ "ACK" \in leroy.nlmsg_batch.msgs[4].flags
          /\ leroy.nlmsg_batch.msgs[5].type = "BATCH_END"
          /\ last.ack = SeqOf(4)
          /\ SeqOf(5) = AddMod(last.ack, 1)
    /\ (ByLine /\ ~Submitted) => leroy.nlmsg_batch.seq = last.seq0

\* A live and committed ban whose batch began at u32::MAX and whose expected
\* acknowledgement number is 2, after the batch before ended at u32::MAX - 1.
C19_Witness ==
    /\ ByLine /\ last.how = "banned" /\ last.sent
    /\ last.seq0 = <<U16 - 1, U16 - 2>>
    /\ SeqOf(1) = <<U16 - 1, U16 - 1>>
    /\ last.ack = <<0, 2>> /\ leroy.nlmsg_batch.seq = <<0, 3>>

\* C20: when the kernel exchange of a ban fails the ban returns before it
\* touches the caches: after a failing ban of a line the suppression cache and
\* the recidivism cache are exactly as before the call, and after a failing
\* startup ban of Leroy::new neither cache has an entry for that address (none
\* at all when it is the first startup ban).
C20_FailedBanLeavesCaches ==
    /\ (ByLine /\ last.how = "failed") => ~last.wrote /\ last.x \in KernelErrors
    /\ (last.op = "new" /\ last.how = "failed") =>
          /\ last.err = "ban"
          /\ last.ip[1] \notin DOMAIN leroy.ipset_cache
          /\ last.ip[1] \notin DOMAIN leroy.recidivism_counts
          /\ last.ip = Some(StartupV4) =>
                leroy.ipset_cache = EmptyCache /\ leroy.recidivism_counts = EmptyCache

\* The ban of a line failed on a rejected batch while the caches held the
\* entries of earlier bans, that of the same address, expired, among them.
C20_Witness ==
    /\ ByLine /\ last.how = "failed" /\ last.x = "reject"
    /\ HasPrev
    /\ last.ip[1] \in DOMAIN leroy.ipset_cache
    /\ leroy.ipset_cache[last.ip[1]].at < last.at

\* The process holds a socket.
LiveRun == pc \in {"running", "failed", "aborted", "exited"} /\ is_some(leroy.socket)

\* The suppression entry of ip is live now.
Suppressing(ip) == contains_key(leroy.ipset_cache, ipset_cache_ttl(leroy.args), ip, now)

\* The kernel holds the element that the ban of ip at time t installed, and it
\* has not timed out (timeouts are milliseconds, the clock counts seconds).
KernelHolds(ip, t) ==
    /\ ip \in DOMAIN kernel
    /\ kernel[ip].at = t
    /\ kernel[ip].at * 1000 + kernel[ip].timeout > now * 1000

\* C21: in every state of a live run, an address whose suppression entry is
\* live has in the kernel the element its ban installed, not yet timed out.
C21_SuppressionWithinKernelBan ==
    LiveRun =>
        \A ip \in DOMAIN leroy.ipset_cache :
            Suppressing(ip) => KernelHolds(ip, leroy.ipset_cache[ip].at)

\* The ban of a line was committed on a response without acknowledgement and
\* the address is suppressed while the kernel holds no element for it.
C21_Witness ==
    /\ LiveRun /\ ByLine /\ last.how = "banned" /\ last.x = "stray"
    /\ Suppressing(last.ip[1])
    /\ last.ip[1] \notin DOMAIN kernel

\* The buckets before the last check_key, after its maybe_gc and after it.
Checked1 == pc = "limiter" /\ last.op = "check"
BucketsBefore == last.before.buckets
BucketsGc == last.gc.buckets
BucketsAfter == leroy.ip_rate_limiters[1].buckets

\* C22: across a check_key call no bucket that exists before and after it has a
\* smaller value after it, the checked key's bucket included even when the
\* call collected and recreated it; a Denied check leaves the key's bucket as
\* it was.
C22_MonotoneBuckets ==
    Checked1 =>
        /\ \A k \in DOMAIN BucketsBefore \cap DOMAIN BucketsAfter :
              BucketsAfter[k] >= BucketsBefore[k]
        /\ last.key \in DOMAIN BucketsAfter
        /\ ~last.ok =>
              /\ last.key \in DOMAIN BucketsBefore
              /\ BucketsAfter[last.key] = BucketsBefore[last.key]
        /\ last.ok => BucketsAfter[last.key] > last.at

\* A Denied check of a key after time has passed, next to another key's bucket.
C22_Witness ==
    /\ Checked1 /\ ~last.ok /\ last.at >= 1
    /\ Cardinality(DOMAIN BucketsAfter) >= 2
    /\ BucketsAfter[last.key] = BucketsBefore[last.key]

\* The last check_key ran a GC pass.
PassRan == Checked1 /\ Cardinality(DOMAIN BucketsBefore) >= last.before.next_gc_len

\* The check of key k at the time of the last check would be Denied by lim.
WouldDeny(lim, k) == ~rate_limiter_check_key(lim, k, last.at).ok

\* C23: a GC pass at time t removes exactly the buckets whose value is <= t and
\* keeps the others with their values; every key that would be Denied just
\* before the pass would be Denied just after it.
C23_GcPreservesDenials ==
    PassRan =>
        /\ DOMAIN BucketsGc = {k \in DOMAIN BucketsBefore : BucketsBefore[k] > last.at}
        /\ \A k \in DOMAIN BucketsGc : BucketsGc[k] = BucketsBefore[k]
        /\ \A k \in Keys : WouldDeny(last.before, k) => WouldDeny(last.gc, k)

\* A pass that removed one bucket and kept another whose key would be Denied.
C23_Witness ==
    /\ PassRan
    /\ \E k \in DOMAIN BucketsBefore : k \notin DOMAIN BucketsGc /\ BucketsBefore[k] = last.at
    /\ \E k \in DOMAIN BucketsGc : WouldDeny(last.before, k) /\ WouldDeny(last.gc, k)

\* C24: the outcome of every check_key of the limiter with amortized GC is the
\* outcome of the same check by the same limiter that kept every bucket, both
\* having been fed the same checks.
C24_GcTransparent ==
    Checked1 => last.ok = last.plain

\* A key whose bucket was collected at this instant is Denied on its b-th
\* further check, which the limiter that kept the replenished bucket admits.
C24_Witness ==
    /\ Checked1 /\ ~last.ok /\ last.plain
    /\ last.key \in DOMAIN BucketsBefore
    /\ BucketsAfter[last.key] = nogc[1].buckets[last.key]

\* The maybe_gc of the last check_key ran a pass: a pass either removes a
\* bucket or, removing none, raises next_gc_len above the size.
PassSeen == Checked1 /\ last.gc # last.before
SizeBefore == Cardinality(DOMAIN BucketsBefore)
SizeGc == Cardinality(DOMAIN BucketsGc)
NewLimiter ==
    pc = "limiter" /\ last.op = "none" =>
        leroy.ip_rate_limiters[1].next_gc_len = leroy.args.cache_initial_capacity
PassThreshold ==
    PassSeen =>
        /\ last.gc.next_gc_len = Max(last.before.initial_capacity, 2 * SizeGc)
        /\ leroy.ip_rate_limiters[1].next_gc_len = last.gc.next_gc_len

\* C25 as stated: next_gc_len starts as initial_capacity, a pass runs only when
\* the size exceeds next_gc_len, and a pass sets next_gc_len to
\* max(initial_capacity, 2 * size after the pass).
C25_PassOnlyWhenExceeded ==
    /\ NewLimiter
    /\ PassSeen => SizeBefore > last.before.next_gc_len
    /\ PassThreshold

\* C25: next_gc_len starts as initial_capacity; before each check a pass runs
\* exactly when the size is at least next_gc_len, and a pass sets next_gc_len
\* to max(initial_capacity, 2 * size after the pass).
C25_PassWhenReached ==
    /\ NewLimiter
    /\ Checked1 => (PassSeen <=> SizeBefore >= last.before.next_gc_len)
    /\ Checked1 /\ ~PassSeen => last.gc = last.before
    /\ PassThreshold

\* A pass that ran with the size equal to next_gc_len, kept both buckets and
\* doubled the threshold.
C25_Witness ==
    /\ PassSeen
    /\ SizeBefore = 2 /\ last.before.next_gc_len = 2
    /\ SizeGc = 2 /\ last.gc.next_gc_len = 4

\* C26: with initial_capacity >= 1, after every check_key the number of
\* buckets is at most next_gc_len and next_gc_len is at least initial_capacity;
\* the buckets that survive a GC pass are at most as many as the keys whose
\* bucket value was after the time of the pass.
C26_SizeWithinThreshold ==
    (Checked1 /\ leroy.args.cache_initial_capacity >= 1) =>
        /\ Cardinality(DOMAIN BucketsAfter) <= leroy.ip_rate_limiters[1].next_gc_len
        /\ leroy.ip_rate_limiters[1].next_gc_len >= leroy.args.cache_initial_capacity
        /\ PassSeen =>
              SizeGc <= Cardinality({k \in DOMAIN BucketsBefore : BucketsBefore[k] > last.at})

\* Three buckets after a check whose pass kept two of two, the threshold at 4.
C26_Witness ==
    /\ PassSeen /\ SizeBefore = 2 /\ SizeGc = 2
    /\ Cardinality(DOMAIN BucketsAfter) = 3
    /\ leroy.ip_rate_limiters[1].next_gc_len = 4

\* The limiter admitted the last line.
Admitted == ByLine /\ last.limiter = "admitted"

\* What an admitted line leaves alone outside the limiter: the line is not
\* parsed, ban is not called, no batch is built or sent, and the caches, the
\* sequence counter, the buffer and the kernel's sets are as before.
NothingBeyondLimiter ==
    /\ last.ip = None
    /\ ~BanCalled /\ last.how = "admitted"
    /\ ~last.built /\ ~last.sent
    /\ ~last.wrote
    /\ ~last.batch_moved /\ leroy.nlmsg_batch.seq = last.seq0
    /\ ~last.kernel_moved
    /\ pc = "running"

\* The buckets before and after the last line.
LineBucketsBefore == last.lim0[1].buckets
LineBucketsAfter == leroy.ip_rate_limiters[1].buckets

\* C27 as stated: an admitted line changes nothing but the line counter and
\* the bucket of its own key: every other bucket and the GC threshold are as
\* before, and nothing outside the limiter is touched.
C27_AdmittedTouchesOwnBucketOnly ==
    Admitted =>
        /\ NothingBeyondLimiter
        /\ DOMAIN LineBucketsAfter = DOMAIN LineBucketsBefore \cup {last.line}
        /\ \A k \in DOMAIN LineBucketsBefore \ {last.line} :
              LineBucketsAfter[k] = LineBucketsBefore[k]
        /\ leroy.ip_rate_limiters[1].next_gc_len = last.lim0[1].next_gc_len

\* C27: an admitted line changes nothing outside the limiter but the line
\* counter; in the limiter it writes the bucket of its own key, and when its
\* check runs a GC pass the buckets of other keys whose value is not after the
\* current time are removed and next_gc_len is set anew; the other buckets
\* keep their values.
C27_AdmittedTouchesLimiterOnly ==
    Admitted =>
        /\ NothingBeyondLimiter
        /\ last.line \in DOMAIN LineBucketsAfter
        /\ LineBucketsAfter[last.line] > last.at
        /\ DOMAIN LineBucketsAfter \subseteq DOMAIN LineBucketsBefore \cup {last.line}
        /\ \A k \in DOMAIN LineBucketsBefore \ {last.line} :
              IF k \in DOMAIN LineBucketsAfter
              THEN LineBucketsAfter[k] = LineBucketsBefore[k]
              ELSE /\ LineBucketsBefore[k] <= last.at
                   /\ Cardinality(DOMAIN LineBucketsBefore) >= last.lim0[1].next_gc_len
        /\ leroy.ip_rate_limiters[1].next_gc_len # last.lim0[1].next_gc_len =>
              Cardinality(DOMAIN LineBucketsBefore) >= last.lim0[1].next_gc_len

\* An admitted line that is an address, whose check collected the bucket of
\* another key.
C27_Witness ==
    /\ Admitted /\ is_some(parse_ascii(last.line))
    /\ \E k \in DOMAIN LineBucketsBefore \ {last.line} : k \notin DOMAIN LineBucketsAfter

\* C28: a ban of an address that reaches submission counts from 1 when the
\* address was never banned or its last ban is ipset_ban_ttl or more ago, and
\* is the previous count + 1 when its last ban is less than ipset_ban_ttl ago;
\* its timeout is base_time times the count, and once committed it is the new
\* recidivism entry of the address, written at the time of the ban.
C28_RecidivismWindow ==
    (ByLine /\ Submitted) =>
        /\ last.recidivism =
              IF HasPrev /\ PrevAge < ban_ttl THEN PrevCount + 1 ELSE 1
        /\ last.timeout = base_time * last.recidivism
        /\ last.how = "banned" =>
              /\ last.ip[1] \in DOMAIN leroy.recidivism_counts
              /\ leroy.recidivism_counts[last.ip[1]] =
                    [value |-> last.recidivism, at |-> last.at]

\* An address banned twice in a row and again ipset_ban_ttl or more after the
\* second ban: the third ban counts from 1.
C28_Witness ==
    /\ ByLine /\ last.how = "banned"
    /\ HasPrev /\ PrevCount >= 2 /\ PrevAge >= ban_ttl
    /\ last.recidivism = 1 /\ last.timeout = base_time

\* The addresses Leroy::new bans.
StartupIps == {StartupV4, StartupV6}

\* The last line called ban for an address that no line has had banned before:
\* the record of committed bans has no entry for it, or has the entry of the
\* startup ban (written at time 0 with count 1; a ban by a line at time 0
\* would have count 2).
FirstByLine ==
    /\ ByLine /\ BanCalled /\ is_some(last.ip)
    /\ HasPrev => last.ip[1] \in StartupIps /\ last.prev[1].at = 0 /\ PrevCount = 1

\* The counter after Leroy::new: two batches of five messages.
SeqAfterNew == <<0, 10>>

\* C29 as stated: after Leroy::new the first ban that a line causes for any
\* address is submitted with timeout base_time, and the first batch built for
\* a line starts from the initial counter 0, so none starts from 10.
C29_NoTraceOfNew ==
    /\ FirstByLine => Submitted /\ last.timeout = base_time
    /\ (ByLine /\ last.built) => last.seq0 # SeqAfterNew

\* C29: after Leroy::new the first ban that a line causes for an address other
\* than the two startup addresses is submitted with count 1 and timeout
\* base_time; for a startup address it is suppressed while less than
\* max(0, base_time - 1) has passed since startup and otherwise submitted with
\* count 2 inside ipset_ban_ttl and count 1 after it; no batch built for a
\* line starts below the counter 10 that the two startup batches leave.
C29_TraceOfStartupBans ==
    /\ (FirstByLine /\ last.ip[1] \notin StartupIps) =>
          Submitted /\ last.recidivism = 1 /\ last.timeout = base_time
    /\ (FirstByLine /\ last.ip[1] \in StartupIps) =>
          /\ HasPrev /\ PrevAge = last.at
          /\ Submitted <=> last.at >= Max(0, base_time - 1)
          /\ Submitted =>
                last.timeout = IF last.at < ban_ttl THEN 2 * base_time ELSE base_time
    /\ (ByLine /\ last.built) => ~U32Less(last.seq0, SeqAfterNew)

\* The first batch built for a line starts from 10 and is the second ban of
\* the startup address 2001:db8::1.
C29_Witness ==
    /\ FirstByLine /\ last.ip = Some(StartupV6) /\ last.how = "banned"
    /\ last.seq0 = SeqAfterNew /\ SeqOf(1) = <<0, 11>>
    /\ last.recidivism = 2

\* The limiter lim holding only the bucket of key.
OwnBucket(lim, key) ==
    [lim EXCEPT !.buckets = [k \in DOMAIN lim.buckets \cap {key} |-> lim.buckets[k]]]

\* The other spellings of the address of the last line.
OtherSpellings == {k \in Lines \ {last.line} : parse_ascii(k) = parse_ascii(last.line)}

\* What the limiter would decide for the last line from that line's bucket
\* alone, as the bucket stands after the collection pass of the check.
OwnDecision ==
    rate_limiter_check_key(OwnBucket(maybe_gc(last.lim0[1], last.at), last.line),
                           last.line, last.at)

RECURSIVE LimbsLeq(_, _)
LimbsLeq(a, b) ==
    \/ a = <<>>
    \/ a[1] < b[1]
    \/ a[1] = b[1] /\ LimbsLeq(Tail(a), Tail(b))

\* The last call of ban got past the suppression check and computed a count.
Counted == last.op = "count" /\ last.how # "suppressed"

\* The count that call read, 0 when the address had no live count.
CountRead == unwrap_or(last.prev, U32Zero)

\* C31: the count computed for a ban never overflows: the addition does not
\* panic, the count is at least 1 and greater than the count it follows, and
\* the timeout is neither zero nor below the timeout of the count it follows.
C31_CountNeverOverflows ==
    Counted =>
        /\ last.how # "panicked"
        /\ last.recidivism # U32Zero
        /\ U32Less(CountRead, last.recidivism)
        /\ last.timeout # FromInt(0)
        /\ LimbsLeq(time_to_ban_u32(leroy.args, CountRead), last.timeout)
        /\ last.how = "banned" =>
              leroy.recidivism_counts[V4(10, 0, 0, 1)].value = last.recidivism

\* The ban after the one that counted u32::MAX: the addition panicked, or the
\* count 0 and the timeout 0 were used and written to the cache.
C31_Witness ==
    /\ Counted /\ last.prev = Some(U32Max)
    /\ \/ last.how = "panicked" /\ pc = "aborted"
       \/ /\ last.how = "banned" /\ last.recidivism = U32Zero
          /\ last.timeout = FromInt(0)
          /\ leroy.recidivism_counts[V4(10, 0, 0, 1)].value = U32Zero

\* line_count after the increment that starts handle_line of the last line.
CountedTo == last.count0 + 1

\* The condition of the report as the last line found it.
ReportDue ==
    /\ CountedTo % 10 = 0
    /\ last.at - last.start0 > leroy.args.reporting_ip_time_period

\* C32: after a line whose handling returned, the report was emitted exactly
\* when line_count, counting that line, is a multiple of 10 and more than
\* reporting_ip_time_period has passed since line_count_start; a report leaves
\* line_count 0 and line_count_start now, and without one line_count is one
\* more than before and line_count_start is unchanged. A line whose ban
\* panicked counted and did not report.
C32_LineRateReport ==
    ByLine =>
        /\ pc = "running" =>
              /\ last.reported = ReportDue
              /\ last.reported =>
                    leroy.line_count = 0 /\ leroy.line_count_start = last.at
              /\ ~last.reported =>
                    /\ leroy.line_count = CountedTo
                    /\ leroy.line_count_start = last.start0
        /\ pc = "aborted" =>
              /\ ~last.reported
              /\ leroy.line_count = CountedTo
              /\ leroy.line_count_start = last.start0

\* The twentieth line reports: the tenth came when no more than the period
\* had passed and did not.
C32_Witness ==
    /\ ByLine /\ pc = "running" /\ last.reported
    /\ last.count0 = 19 /\ last.start0 = 0
    /\ last.at > leroy.args.reporting_ip_time_period
    /\ leroy.line_count = 0 /\ leroy.line_count_start = last.at

====
